---- MODULE Spec2Model ----
(***************************************************************************)
(* Model of the reliability feed's scoring core:                           *)
(*   src/src/scoring.py     calculate_reliability_score                    *)
(*   src/scrapers/base.py   BaseScraper.classify_severity                  *)
(*                                                                         *)
(* Arithmetic.  The Python code computes with floats.  The model computes  *)
(* the same expressions exactly, in fixed point: a quantity of p points is *)
(* the integer p * Scale.  math.log10 is tabulated to three decimals       *)
(* (Log10Milli), so an issue's penalty is within 0.004 points of the       *)
(* float value.  Values handed to round(x, 1) are kept in tenths.          *)
(***************************************************************************)
EXTENDS Integers, Sequences, FiniteSets, TLC

VARIABLES
    issues,          \* calculate_reliability_score argument: list of issue dicts
    positives,       \* argument: list of positive dicts
    recall_data,     \* argument: recall summary dict, or None
    repairability,   \* argument: repairability summary dict, or None
    result,          \* the dict returned by calculate_reliability_score
    pc,              \* "start" before the call, "done" after it returned
    issue_text,      \* classify_severity argument: the text, a sequence of characters
    mention_count,   \* classify_severity argument
    severity,        \* the value returned by classify_severity ("none" before the call)
    before,          \* the severity and issue penalty computed before a mention count was raised
    total_posts,     \* classify_frequency / estimate_affected_percentage argument
    frequency,       \* the value returned by classify_frequency ("none" before the call)
    affected_percentage,  \* the value returned by estimate_affected_percentage, in tenths (-1 before the call)
    raw_data,        \* extract_issues argument: the list of raw records
    seen_issues,     \* extract_issues' set of titles already turned into an issue
    extracted,       \* outcome of the latest extract_issues call
    first_run,       \* outcome of the first extract_issues call
    runs,            \* number of extract_issues calls made
    procs,           \* the runs of populate_database: position, locals, hash seed of the process
    feeds,           \* what the three sources will answer to the coming fetches, one entry per product
    launches,        \* number of populate_database runs started
    computed,        \* the calls of calculate_reliability_score in order: product, run, what became of the result
    products,        \* table products: the rows' ids
    reliability_scores,  \* table reliability_scores: the rows in order of their autoincrement id
    issues_table,    \* table issues
    issue_sources,   \* table issue_sources
    positives_table, \* table positives
    top_products     \* the latest answer of get_top_products

scoreVars == <<issues, positives, recall_data, repairability, result, pc>>
severityVars == <<issue_text, mention_count, severity>>
frequencyVars == <<total_posts, frequency, affected_percentage>>
extractVars == <<raw_data, seen_issues, extracted, first_run, runs>>
tableVars == <<products, reliability_scores, issues_table, issue_sources, positives_table>>
storeVars == <<procs, feeds, launches, computed, tableVars, top_products>>

vars == <<scoreVars, severityVars, before, frequencyVars, extractVars, storeVars>>

---------------------------------------------------------------------------
(* Bounds of the model *)

MaxIssues == 2
MaxPositives == 4
MaxRecalls == 3

(* Fixed-point resolution: one point is Scale units. *)
Scale == 10000

Min(a, b) == IF a <= b THEN a ELSE b
Max(a, b) == IF a >= b THEN a ELSE b

(* Python's round(): to the nearest multiple of unit, a tie to the even one. *)
RoundHalfEven(x, unit) ==
    LET q == x \div unit
        r == x % unit
    IN  IF 2 * r < unit THEN q
        ELSE IF 2 * r > unit THEN q + 1
        ELSE IF q % 2 = 0 THEN q ELSE q + 1

(* round(x, 1) of a quantity in Scale units, as a number of tenths. *)
RoundTenths(x) == RoundHalfEven(x, Scale \div 10)

(* round(1000 * math.log10(m)) on the mention counts the model uses. *)
Log10Milli(m) ==
    CASE m = 1 -> 0
      [] m = 2 -> 301
      [] m = 5 -> 699
      [] m = 10 -> 1000
      [] m = 25 -> 1398
      [] m = 30 -> 1477
      [] m = 50 -> 1699
      [] m = 100 -> 2000
      [] m = 150 -> 2176
      [] m = 200 -> 2301
      [] m = 1000 -> 3000

---------------------------------------------------------------------------
(* calculate_reliability_score, src/src/scoring.py *)

Severities == {"critical", "high", "medium", "low"}

(* Mutant: the weights of critical and low exchanged. *)
SeverityWeightSwapped(sev) ==
    CASE sev = "critical" -> 3
      [] sev = "high" -> 15
      [] sev = "medium" -> 8
      [] sev = "low" -> 25
      [] OTHER -> 5

(* severity_weights.get(severity, 5) *)
SeverityWeight(sev) ==
    CASE sev = "critical" -> 25
      [] sev = "high" -> 15
      [] sev = "medium" -> 8
      [] sev = "low" -> 3
      [] OTHER -> 5

(* 1 + (math.log10(max(mentions, 1)) * 0.3), in Scale units *)
FrequencyMultiplier(mentions) == Scale + 3 * Log10Milli(Max(mentions, 1))

(* The loop over issues: the sum of base_penalty * frequency_multiplier. *)
RECURSIVE RawIssuePenalty(_)
RawIssuePenalty(iss) ==
    IF iss = <<>> THEN 0
    ELSE SeverityWeight(Head(iss).severity) * FrequencyMultiplier(Head(iss).mention_count)
         + RawIssuePenalty(Tail(iss))

(* Mutant: the cap on the issue penalty left out. *)
CapIssuePenaltyMissing(p) == p

(* issue_penalty = min(issue_penalty, 60) *)
CapIssuePenalty(p) == Min(p, 60 * Scale)

RECURSIVE SumMentions(_)
SumMentions(s) ==
    IF s = <<>> THEN 0 ELSE Head(s).mention_count + SumMentions(Tail(s))

(* if recall_data and recall_data.get('has_recalls') *)
RecallCounted(rd) == rd.given /\ rd.has_recalls

(* Mutant: the recall penalty without its cap of 40. *)
RecallPenaltyUncapped(rd) ==
    IF RecallCounted(rd) THEN rd.recall_count * 20 ELSE 0

(* recall_penalty, in whole points *)
RecallPenalty(rd) ==
    IF RecallCounted(rd) THEN Min(rd.recall_count * 20, 40) ELSE 0

(* if repairability and repairability.get('found'), and repair_score is not None *)
RepairCounted(rp) == rp.given /\ rp.found /\ rp.has_score

(* Mutant: the factor 1.5 left out. *)
RepairabilityAdjustmentUnscaled(rp) ==
    IF RepairCounted(rp) THEN (rp.repairability_score - 5) * Scale ELSE 0

(* repairability_adjustment = (repair_score - 5) * 1.5, in Scale units *)
RepairabilityAdjustment(rp) ==
    IF RepairCounted(rp)
    THEN ((rp.repairability_score - 5) * 3 * Scale) \div 2
    ELSE 0

(* Mutant: one positive's contribution without its cap of 3. *)
OnePositiveBonusUncapped(mentions) == (mentions * 2 * Scale) \div 100

(* min(mentions * 0.02, 3): one positive's contribution, in Scale units *)
OnePositiveBonus(mentions) == Min((mentions * 2 * Scale) \div 100, 3 * Scale)

RECURSIVE RawPositiveBonus(_)
RawPositiveBonus(pos) ==
    IF pos = <<>> THEN 0
    ELSE OnePositiveBonus(Head(pos).mention_count) + RawPositiveBonus(Tail(pos))

(* Mutant: the cap on the total positive bonus left out. *)
CapPositiveBonusMissing(b) == b

(* positive_bonus = min(positive_bonus, 10) *)
CapPositiveBonus(b) == Min(b, 10 * Scale)

(* Mutant: the score clamped from above only. *)
ClampScoreNoFloor(s) == Min(100 * Scale, s)

(* score = max(0, min(100, score)) *)
ClampScore(s) == Max(0, Min(100 * Scale, s))

(* The grade ladder, applied by the code to the clamped, not yet rounded score. *)
GradeLadder(s) ==
    IF s >= 90 * Scale THEN "A"
    ELSE IF s >= 80 * Scale THEN "B+"
    ELSE IF s >= 70 * Scale THEN "B"
    ELSE IF s >= 60 * Scale THEN "C+"
    ELSE IF s >= 50 * Scale THEN "C"
    ELSE IF s >= 40 * Scale THEN "D"
    ELSE "F"

ConfidenceOf(total_data_points) ==
    IF total_data_points > 500 THEN "high"
    ELSE IF total_data_points > 100 THEN "medium"
    ELSE "low"

(* Mutant: the positives' mentions not counted. *)
TotalDataPointsNoPositives(iss, pos, rd, rp) ==
    SumMentions(iss)
    + (IF RecallCounted(rd) THEN rd.recall_count ELSE 0)
    + (IF RepairCounted(rp) THEN 1 ELSE 0)

(* total_data_points as accumulated along the function *)
TotalDataPoints(iss, pos, rd, rp) ==
    SumMentions(iss)
    + (IF RecallCounted(rd) THEN rd.recall_count ELSE 0)
    + (IF RepairCounted(rp) THEN 1 ELSE 0)
    + SumMentions(pos)

(* The running score after all four terms, before clamping (Scale units). *)
RunningScore(iss, pos, rd, rp) ==
    100 * Scale
    - CapIssuePenalty(RawIssuePenalty(iss))
    - RecallPenalty(rd) * Scale
    + RepairabilityAdjustment(rp)
    + CapPositiveBonus(RawPositiveBonus(pos))

(* The returned dict.  breakdown: issue_penalty, repairability_adjustment  *)
(* and positive_bonus in tenths (round(x, 1)); recall_penalty in points.   *)
ScoreResult(iss, pos, rd, rp) ==
    LET clamped == ClampScore(RunningScore(iss, pos, rd, rp))
    IN  [ outcome |-> "returned",
          score |-> RoundHalfEven(clamped, Scale),
          grade |-> GradeLadder(clamped),
          confidence |-> ConfidenceOf(TotalDataPoints(iss, pos, rd, rp)),
          data_points |-> TotalDataPoints(iss, pos, rd, rp),
          breakdown |->
            [ issue_penalty |-> RoundTenths(CapIssuePenalty(RawIssuePenalty(iss))),
              recall_penalty |-> RecallPenalty(rd),
              repairability_adjustment |-> RoundTenths(RepairabilityAdjustment(rp)),
              positive_bonus |-> RoundTenths(CapPositiveBonus(RawPositiveBonus(pos))) ] ]

NoResult ==
    [ outcome |-> "none", score |-> 0, grade |-> "", confidence |-> "", data_points |-> 0,
      breakdown |-> [ issue_penalty |-> 0, recall_penalty |-> 0,
                      repairability_adjustment |-> 0, positive_bonus |-> 0 ] ]

---------------------------------------------------------------------------
(* Inputs *)

RECURSIVE SeqsUpTo(_, _)
SeqsUpTo(S, n) ==
    IF n = 0 THEN { <<>> }
    ELSE LET shorter == SeqsUpTo(S, n - 1)
         IN  shorter \cup { Append(s, x) : s \in { t \in shorter : Len(t) = n - 1 }, x \in S }

IssueMentions == {1, 150}
PositiveMentions == {25, 200}
RepairScores == {0, 5, 6}

IssueDicts == [severity : Severities, mention_count : IssueMentions]
PositiveDicts == [mention_count : PositiveMentions]

(* recall_data: None, or the summary of CPSCScraper.check_product_recalls *)
RecallNone == [given |-> FALSE, has_recalls |-> FALSE, recall_count |-> 0]
RecallSummary(n) == [given |-> TRUE, has_recalls |-> n > 0, recall_count |-> n]
RecallInputs == {RecallNone} \cup { RecallSummary(n) : n \in 0..MaxRecalls }

(* repairability: None, or the summary of IFixitScraper.get_repairability_summary *)
RepairNone == [given |-> FALSE, found |-> FALSE, has_score |-> FALSE, repairability_score |-> 0]
RepairNotFound == [given |-> TRUE, found |-> FALSE, has_score |-> FALSE, repairability_score |-> 0]
RepairNoScore == [given |-> TRUE, found |-> TRUE, has_score |-> FALSE, repairability_score |-> 0]
RepairFound(s) == [given |-> TRUE, found |-> TRUE, has_score |-> TRUE, repairability_score |-> s]
RepairInputs == {RepairNone, RepairNotFound, RepairNoScore} \cup { RepairFound(s) : s \in RepairScores }

NoBefore == [severity |-> "none", issue_penalty |-> -1]
NoExtraction == [outcome |-> "none", by |-> "none", issues |-> <<>>]

(* The processes that run populate_database. *)
ProcIds == {1, 2}

NoFeed == [reddit |-> "none", cpsc |-> "none", ifixit |-> "none"]

(* A process that has not been started. *)
NoProc ==
    [ pc |-> "idle", monitor |-> 0, all_issues |-> <<>>, all_positives |-> <<>>,
      recall_data |-> RecallNone, repair_data |-> RepairNone, score_data |-> NoResult,
      seed |-> 0, run |-> 0, feed |-> NoFeed, at |-> "idle" ]

NoListing == [outcome |-> "none", top_products |-> <<>>]

StoreIdle ==
    /\ procs = [p \in ProcIds |-> NoProc]
    /\ feeds = <<>>
    /\ launches = 0
    /\ computed = <<>>
    /\ products = {}
    /\ reliability_scores = <<>>
    /\ issues_table = {}
    /\ issue_sources = {}
    /\ positives_table = {}
    /\ top_products = NoListing

FrequencyIdle ==
    /\ total_posts = 0
    /\ frequency = "none"
    /\ affected_percentage = -1

ExtractIdle ==
    /\ raw_data = <<>>
    /\ seen_issues = {}
    /\ extracted = NoExtraction
    /\ first_run = NoExtraction
    /\ runs = 0

SeverityIdle ==
    /\ issue_text = <<>>
    /\ mention_count = 0
    /\ severity = "none"
    /\ before = NoBefore
    /\ StoreIdle
    /\ FrequencyIdle
    /\ ExtractIdle

Init ==
    /\ issues \in SeqsUpTo(IssueDicts, MaxIssues)
    /\ positives \in SeqsUpTo(PositiveDicts, MaxPositives)
    /\ recall_data \in RecallInputs
    /\ repairability \in RepairInputs
    /\ result = NoResult
    /\ pc = "start"
    /\ SeverityIdle

Calculate ==
    /\ pc = "start"
    /\ result' = ScoreResult(issues, positives, recall_data, repairability)
    /\ pc' = "done"
    /\ UNCHANGED <<issues, positives, recall_data, repairability,
                   severityVars, before, frequencyVars, extractVars, storeVars>>

Next == Calculate

Spec == Init /\ [][Next]_vars

---------------------------------------------------------------------------
(* The score calculator called with input the data model rules out:       *)
(* negative mention counts, a repairability score outside 0..10.          *)

InvalidIssueDicts == [severity : Severities, mention_count : {-5, 1}]
InvalidPositiveDicts == [mention_count : {-50, 25}]
InvalidRepairScores == {-3, 5, 15}

InitInvalid ==
    /\ issues \in SeqsUpTo(InvalidIssueDicts, 1)
    /\ positives \in SeqsUpTo(InvalidPositiveDicts, 1)
    /\ recall_data \in {RecallNone, RecallSummary(1)}
    /\ repairability \in {RepairNone} \cup { RepairFound(s) : s \in InvalidRepairScores }
    /\ result = NoResult
    /\ pc = "start"
    /\ SeverityIdle

SpecInvalid == InitInvalid /\ [][Next]_vars

---------------------------------------------------------------------------
(* Claims about calculate_reliability_score *)

Done == pc = "done"

\* C1: for every combination of issues, positives, recall summary and repair
\* summary, the returned score is an integer in the range 0..100.
C1_ScoreInRange == Done => result.score \in 0..100

\* C1 witness: the four terms drove the running score below 0 and the call
\* returned the clamped score 0.
C1_Witness ==
    /\ Done
    /\ RunningScore(issues, positives, recall_data, repairability) < 0
    /\ result.score = 0

(* The breakpoint mapping of the specification, on an integer score. *)
BreakpointGrade(n) ==
    IF n >= 90 THEN "A"
    ELSE IF n >= 80 THEN "B+"
    ELSE IF n >= 70 THEN "B"
    ELSE IF n >= 60 THEN "C+"
    ELSE IF n >= 50 THEN "C"
    ELSE IF n >= 40 THEN "D"
    ELSE "F"

\* C2: the returned grade is the fixed breakpoint mapping (>=90 A, >=80 B+,
\* >=70 B, >=60 C+, >=50 C, >=40 D, else F) of the returned, clamped and
\* rounded, integer score.
C2_GradeOfReturnedScore == Done => result.grade = BreakpointGrade(result.score)

\* C3: breakdown.issue_penalty never exceeds 60, and is exactly 60 whenever the
\* summed raw penalty of the issues is greater than 60.
C3_IssuePenaltyCap ==
    Done =>
        /\ result.breakdown.issue_penalty <= 600
        /\ RawIssuePenalty(issues) > 60 * Scale => result.breakdown.issue_penalty = 600

\* C3 witness: an issue list whose raw penalty exceeds 60 was scored.
C3_Witness ==
    /\ Done
    /\ RawIssuePenalty(issues) > 60 * Scale
    /\ result.breakdown.issue_penalty = 600

\* C4: the recall penalty is min(recall_count x 20, 40) when the summary has
\* recalls and 0 when it has none; it never exceeds 40, and recall_count = 3
\* gives 40.
C4_RecallPenalty ==
    Done =>
        LET has == recall_data.given /\ recall_data.has_recalls
            n == recall_data.recall_count
        IN  /\ has => result.breakdown.recall_penalty = (IF n * 20 <= 40 THEN n * 20 ELSE 40)
            /\ ~has => result.breakdown.recall_penalty = 0
            /\ result.breakdown.recall_penalty <= 40
            /\ (has /\ n = 3) => result.breakdown.recall_penalty = 40

\* C4 witness: a summary with three recalls was scored, penalty 40.
C4_Witness ==
    /\ Done
    /\ recall_data.has_recalls
    /\ recall_data.recall_count = 3
    /\ result.breakdown.recall_penalty = 40

RECURSIVE ClaimedBonusSum(_)
ClaimedBonusSum(pos) ==
    IF pos = <<>> THEN 0
    ELSE (IF 2 * Head(pos).mention_count <= 300 THEN 2 * Head(pos).mention_count ELSE 300)
         + ClaimedBonusSum(Tail(pos))

\* C6: the positive bonus is the sum over positives of min(mention_count x 0.02, 3),
\* capped at 10 in total: it lies in 0..10 and no single positive contributes
\* more than 3.
C6_PositiveBonus ==
    Done =>
        LET sum == ClaimedBonusSum(positives)
            capped == IF sum <= 1000 THEN sum ELSE 1000
        IN  /\ result.breakdown.positive_bonus = RoundHalfEven(capped, 10)
            /\ result.breakdown.positive_bonus \in 0..100
            /\ result.breakdown.positive_bonus <= 30 * Len(positives)

\* C6 witness: four positives of 200 mentions each (3 points each, 12 in sum)
\* were scored and the bonus is the cap, 10.
C6_Witness ==
    /\ Done
    /\ Len(positives) = 4
    /\ \A i \in 1..Len(positives) : positives[i].mention_count = 200
    /\ result.breakdown.positive_bonus = 100

\* C7: whenever the issue list contains an issue of severity critical, the issue
\* penalty is strictly greater than the positive bonus.
C7_CriticalOutweighsPositives ==
    (Done /\ \E i \in 1..Len(issues) : issues[i].severity = "critical")
        => result.breakdown.issue_penalty > result.breakdown.positive_bonus

\* C7 witness: a single critical issue with one mention was scored together
\* with positives that reach the bonus cap.
C7_Witness ==
    /\ Done
    /\ issues = << [severity |-> "critical", mention_count |-> 1] >>
    /\ result.breakdown.positive_bonus = 100

(* Sum of mention_count over a list, by index. *)
MentionTotal(s) ==
    LET f[k \in 0..Len(s)] == IF k = 0 THEN 0 ELSE f[k - 1] + s[k].mention_count
    IN  f[Len(s)]

\* C8: data_points is the sum of mention_count over the issues, plus
\* recall_count, plus the sum of mention_count over the positives, plus 1 if a
\* repairability score is present; confidence is high when data_points > 500,
\* medium when > 100, else low, whatever the score.
C8_DataPointsAndConfidence ==
    Done =>
        /\ result.data_points =
              MentionTotal(issues)
              + (IF recall_data.given THEN recall_data.recall_count ELSE 0)
              + MentionTotal(positives)
              + (IF repairability.given /\ repairability.has_score THEN 1 ELSE 0)
        /\ result.confidence =
              (IF result.data_points > 500 THEN "high"
               ELSE IF result.data_points > 100 THEN "medium" ELSE "low")

\* C8 witness: a call with one recall and a repairability score whose evidence
\* adds up to 502 data points (150 + 150 + 1 + 200 + 1) returned confidence
\* high with a score below 50.
C8_Witness ==
    /\ Done
    /\ recall_data.recall_count = 1
    /\ repairability.has_score
    /\ result.data_points = 502
    /\ result.confidence = "high"
    /\ result.score < 50

(* The input the data model allows: mention counts >= 0, score in 0..10. *)
ValidInput ==
    /\ \A i \in 1..Len(issues) : issues[i].mention_count >= 0
    /\ \A i \in 1..Len(positives) : positives[i].mention_count >= 0
    /\ repairability.has_score => repairability.repairability_score \in 0..10

\* C9: a call with a negative mention_count, or with a repairability score
\* outside 0..10, ends in a fault and produces no score.
C9_InvalidInputRejected == (Done /\ ~ValidInput) => result.outcome = "fault"

---------------------------------------------------------------------------
(* BaseScraper.classify_severity, src/scrapers/base.py.  A str is a       *)
(* sequence of one-character strings.                                     *)

LowerLetters == <<"a", "b", "c", "d", "e", "f", "g", "h", "i", "j", "k", "l", "m", "n", "o", "p", "q", "r", "s", "t", "u", "v", "w", "x", "y", "z">>
UpperLetters == <<"A", "B", "C", "D", "E", "F", "G", "H", "I", "J", "K", "L", "M", "N", "O", "P", "Q", "R", "S", "T", "U", "V", "W", "X", "Y", "Z">>

(* str.lower() and str.upper() on one character *)
LowerChar(c) ==
    IF \E i \in 1..Len(UpperLetters) : UpperLetters[i] = c
    THEN LowerLetters[CHOOSE i \in 1..Len(UpperLetters) : UpperLetters[i] = c]
    ELSE c
UpperChar(c) ==
    IF \E i \in 1..Len(LowerLetters) : LowerLetters[i] = c
    THEN UpperLetters[CHOOSE i \in 1..Len(LowerLetters) : LowerLetters[i] = c]
    ELSE c

StrLower(t) == [i \in 1..Len(t) |-> LowerChar(t[i])]
StrUpper(t) == [i \in 1..Len(t) |-> UpperChar(t[i])]

(* kw in text: kw is a substring of text *)
Contains(text, kw) ==
    \E i \in 1..(Len(text) - Len(kw) + 1) : SubSeq(text, i, i + Len(kw) - 1) = kw

critical_keywords ==
    { <<"f", "i", "r", "e">>,
      <<"b", "u", "r", "n">>,
      <<"s", "h", "o", "c", "k">>,
      <<"i", "n", "j", "u", "r", "y">>,
      <<"d", "a", "n", "g", "e", "r", "o", "u", "s">>,
      <<"r", "e", "c", "a", "l", "l">>,
      <<"s", "a", "f", "e", "t", "y">>,
      <<"e", "x", "p", "l", "o", "d", "e">>,
      <<"s", "m", "o", "k", "e">>,
      <<"h", "a", "z", "a", "r", "d">> }

high_keywords ==
    { <<"d", "e", "a", "d">>,
      <<"b", "r", "o", "k", "e", "n">>,
      <<"f", "a", "i", "l", "e", "d">>,
      <<"d", "e", "f", "e", "c", "t">>,
      <<"u", "n", "u", "s", "a", "b", "l", "e">>,
      <<"r", "e", "f", "u", "n", "d">>,
      <<"w", "a", "r", "r", "a", "n", "t", "y">>,
      <<"r", "e", "p", "l", "a", "c", "e", "m", "e", "n", "t">>,
      <<"D", "O", "A">>,
      <<"r", "e", "t", "u", "r", "n">> }

medium_keywords ==
    { <<"i", "s", "s", "u", "e">>,
      <<"p", "r", "o", "b", "l", "e", "m">>,
      <<"b", "u", "g">>,
      <<"g", "l", "i", "t", "c", "h">>,
      <<"a", "n", "n", "o", "y", "i", "n", "g">>,
      <<"f", "l", "i", "c", "k", "e", "r">>,
      <<"n", "o", "i", "s", "e">>,
      <<"l", "o", "u", "d">>,
      <<"s", "l", "o", "w">> }

(* any(kw in text_lower for kw in keywords) *)
AnyKeywordIn(text_lower, keywords) == \E kw \in keywords : Contains(text_lower, kw)

(* Mutant: the two thresholds' tiers exchanged. *)
SeverityByCountSwapped(mentions) ==
    IF mentions > 100 THEN "medium"
    ELSE IF mentions > 30 THEN "high"
    ELSE "low"

(* The fallback on the mention count, when no keyword matched. *)
SeverityByCount(mentions) ==
    IF mentions > 100 THEN "high"
    ELSE IF mentions > 30 THEN "medium"
    ELSE "low"

ClassifySeverity(text, mentions) ==
    LET text_lower == StrLower(text)
    IN  IF AnyKeywordIn(text_lower, critical_keywords) THEN "critical"
        ELSE IF AnyKeywordIn(text_lower, high_keywords) THEN "high"
        ELSE IF AnyKeywordIn(text_lower, medium_keywords) THEN "medium"
        ELSE SeverityByCount(mentions)

(* Input texts: words separated by a blank.  The first word is any keyword *)
(* of the tables or a neutral word, as written, in lower or in upper case; *)
(* the words after it come from a sample of the three tiers.               *)
MaxWords == 2

NeutralWords == { <<"s", "t", "a", "n", "d">>, <<"p", "a", "n", "e", "l">> }
Vocabulary == critical_keywords \cup high_keywords \cup medium_keywords \cup NeutralWords
WordForms(w) == {w, StrLower(w), StrUpper(w)}
FirstWords == UNION { WordForms(w) : w \in Vocabulary }
LaterWords ==
    { <<"f", "i", "r", "e">>,
      <<"R", "E", "C", "A", "L", "L">>,
      <<"d", "e", "a", "d">>,
      <<"D", "O", "A">>,
      <<"i", "s", "s", "u", "e">>,
      <<"S", "L", "O", "W">>,
      <<"s", "t", "a", "n", "d">> }

RECURSIVE TextsUpTo(_)
TextsUpTo(n) ==
    IF n = 0 THEN { <<>> }
    ELSE IF n = 1 THEN { <<>> } \cup FirstWords
    ELSE LET shorter == TextsUpTo(n - 1)
         IN  shorter \cup { t \o <<" ">> \o w : t \in shorter \ { <<>> }, w \in LaterWords }

SeverityMentions == {0, 30, 31, 100, 101}

ScoreIdle ==
    /\ issues = <<>>
    /\ positives = <<>>
    /\ recall_data = RecallNone
    /\ repairability = RepairNone
    /\ result = NoResult
    /\ pc = "idle"

InitSeverity ==
    /\ issue_text \in TextsUpTo(MaxWords)
    /\ mention_count \in SeverityMentions
    /\ severity = "none"
    /\ before = NoBefore
    /\ ScoreIdle
    /\ StoreIdle
    /\ FrequencyIdle
    /\ ExtractIdle

Classify ==
    /\ severity = "none"
    /\ severity' = ClassifySeverity(issue_text, mention_count)
    /\ UNCHANGED <<scoreVars, issue_text, mention_count, before, frequencyVars, extractVars, storeVars>>

NextSeverity == Classify

SpecSeverity == InitSeverity /\ [][NextSeverity]_vars

---------------------------------------------------------------------------
(* Claims about classify_severity *)

Classified == severity # "none"

(* The text contains a keyword of the table, letter case ignored. *)
MentionsKeywordOf(text, keywords) ==
    \E kw \in keywords : Contains(StrLower(text), StrLower(kw))

\* C10: strict tier precedence: a text containing a critical keyword is
\* critical, whatever the mention count and the other keywords in it; otherwise
\* a high keyword gives high; otherwise a medium keyword gives medium; only
\* when no keyword matches the mention count decides (>100 high, >30 medium,
\* else low).
C10_TierPrecedence ==
    Classified =>
        severity =
            (IF MentionsKeywordOf(issue_text, critical_keywords) THEN "critical"
             ELSE IF MentionsKeywordOf(issue_text, high_keywords) THEN "high"
             ELSE IF MentionsKeywordOf(issue_text, medium_keywords) THEN "medium"
             ELSE IF mention_count > 100 THEN "high"
             ELSE IF mention_count > 30 THEN "medium"
             ELSE "low")

(* Apart from texts holding "doa", which the lowercased text can never match *)
(* against the table's 'DOA', the precedence of C10 holds.                 *)
TierPrecedenceApartFromDOA ==
    (Classified /\ ~Contains(StrLower(issue_text), <<"d", "o", "a">>)) => C10_TierPrecedence

(* Order of the tiers: low < medium < high < critical. *)
TierRank(sev) ==
    CASE sev = "low" -> 0
      [] sev = "medium" -> 1
      [] sev = "high" -> 2
      [] sev = "critical" -> 3

\* C11: keyword matching is case-insensitive for every keyword of every tier:
\* a text containing a keyword of the critical, high or medium table, in any
\* letter case, is classified at that keyword's tier or above.
C11_CaseInsensitiveKeywords ==
    Classified =>
        /\ MentionsKeywordOf(issue_text, critical_keywords) => TierRank(severity) >= 3
        /\ MentionsKeywordOf(issue_text, high_keywords) => TierRank(severity) >= 2
        /\ MentionsKeywordOf(issue_text, medium_keywords) => TierRank(severity) >= 1

---------------------------------------------------------------------------
(* Raising a mention count: classify_severity called again on the same    *)
(* text with a higher count, calculate_reliability_score called again     *)
(* with one issue's mention_count raised and its severity kept.           *)

MonotoneTexts == { <<>>, <<"s", "t", "a", "n", "d">>, <<"D", "O", "A">>, <<"s", "l", "o", "w">> }
MonotoneMentions == {1, 10, 150}
MonotoneIssueDicts == [severity : Severities, mention_count : MonotoneMentions]

InitMonotone ==
    /\ \/ /\ issues \in SeqsUpTo(MonotoneIssueDicts, MaxIssues)
          /\ issue_text = <<"s", "t", "a", "n", "d">>
          /\ mention_count = 30
       \/ /\ issues = << [severity |-> "critical", mention_count |-> 1] >>
          /\ issue_text \in MonotoneTexts
          /\ mention_count \in SeverityMentions
    /\ positives = <<>>
    /\ recall_data = RecallNone
    /\ repairability = RepairNone
    /\ result = NoResult
    /\ pc = "start"
    /\ severity = "none"
    /\ before = NoBefore
    /\ StoreIdle
    /\ FrequencyIdle
    /\ ExtractIdle

RaiseMentionCount ==
    /\ severity # "none"
    /\ \E m \in SeverityMentions :
          /\ m > mention_count
          /\ mention_count' = m
          /\ severity' = ClassifySeverity(issue_text, m)
    /\ before' = [before EXCEPT !.severity = severity]
    /\ UNCHANGED <<scoreVars, issue_text, frequencyVars, extractVars, storeVars>>

RaiseIssueMentions ==
    /\ pc = "done"
    /\ \E i \in 1..Len(issues), m \in MonotoneMentions :
          /\ m > issues[i].mention_count
          /\ issues' = [issues EXCEPT ![i].mention_count = m]
    /\ before' = [before EXCEPT !.issue_penalty = result.breakdown.issue_penalty]
    /\ result' = ScoreResult(issues', positives, recall_data, repairability)
    /\ UNCHANGED <<positives, recall_data, repairability, pc,
                   severityVars, frequencyVars, extractVars, storeVars>>

NextMonotone == Calculate \/ Classify \/ RaiseMentionCount \/ RaiseIssueMentions

SpecMonotone == InitMonotone /\ [][NextMonotone]_vars

\* C12: for a fixed text, raising mention_count never lowers the tier returned
\* by classify_severity (low < medium < high < critical); for a fixed severity,
\* raising one issue's mention_count never lowers the issue_penalty.
C12_MonotoneInMentions ==
    /\ before.severity # "none" => TierRank(severity) >= TierRank(before.severity)
    /\ before.issue_penalty >= 0 => result.breakdown.issue_penalty >= before.issue_penalty

\* C12 witness: a raised mention count lifted the tier from low to a higher one,
\* and a raised issue mention count increased the issue penalty.
C12_Witness ==
    /\ before.severity = "low"
    /\ TierRank(severity) > 0
    /\ before.issue_penalty >= 0
    /\ result.breakdown.issue_penalty > before.issue_penalty

---------------------------------------------------------------------------
(* BaseScraper.classify_frequency and estimate_affected_percentage,       *)
(* src/scrapers/base.py.  percentage = (mention_count / total_posts) * 100 *)
(* is compared exactly, by cross-multiplication with total_posts.         *)

MaxPosts == 100

(* Mutant: the thresholds compared with >= instead of >. *)
ClassifyFrequencyInclusive(mentions, total) ==
    IF total = 0 THEN "rare"
    ELSE IF mentions * 100 >= 25 * total THEN "very_common"
    ELSE IF mentions * 100 >= 10 * total THEN "common"
    ELSE IF mentions * 100 >= 3 * total THEN "uncommon"
    ELSE "rare"

ClassifyFrequency(mentions, total) ==
    IF total = 0 THEN "rare"
    ELSE IF mentions * 100 > 25 * total THEN "very_common"
    ELSE IF mentions * 100 > 10 * total THEN "common"
    ELSE IF mentions * 100 > 3 * total THEN "uncommon"
    ELSE "rare"

(* Mutant: the cap at 50% left out. *)
AffectedUncapped(mentions, total) == 600 * mentions

(* min(dampened, 50.0) with dampened = raw_percentage * 0.6, as a number   *)
(* of tenths multiplied by total_posts (total_posts > 0).                 *)
AffectedCapped(mentions, total) == Min(600 * mentions, 500 * total)

(* round(min(dampened, 50.0), 1), in tenths.  Exact unless the value lies *)
(* midway between two tenths, which needs total_posts >= 16.              *)
AffectedTenths(mentions, total) ==
    IF total = 0 THEN 0 ELSE RoundHalfEven(AffectedCapped(mentions, total), total)

(* The values round() can return: midway between two tenths the float      *)
(* product falls on either side, so both neighbours are possible.          *)
AffectedOutcomes(mentions, total) ==
    IF total = 0 THEN {0}
    ELSE LET x == AffectedCapped(mentions, total)
         IN  IF 2 * (x % total) = total
             THEN {x \div total, x \div total + 1}
             ELSE {AffectedTenths(mentions, total)}

InitFrequency ==
    /\ total_posts \in 0..MaxPosts
    /\ mention_count \in (0..total_posts) \cup (IF total_posts = 0 THEN {1, 5} ELSE {})
    /\ frequency = "none"
    /\ affected_percentage = -1
    /\ issue_text = <<>>
    /\ severity = "none"
    /\ before = NoBefore
    /\ ScoreIdle
    /\ StoreIdle
    /\ ExtractIdle

FrequencyCall ==
    /\ frequency = "none"
    /\ frequency' = ClassifyFrequency(mention_count, total_posts)
    /\ UNCHANGED <<scoreVars, severityVars, before, total_posts, affected_percentage, extractVars, storeVars>>

EstimateCall ==
    /\ affected_percentage = -1
    /\ affected_percentage' \in AffectedOutcomes(mention_count, total_posts)
    /\ UNCHANGED <<scoreVars, severityVars, before, total_posts, frequency, extractVars, storeVars>>

NextFrequency == FrequencyCall \/ EstimateCall

SpecFrequency == InitFrequency /\ [][NextFrequency]_vars

\* C13: classify_frequency returns rare when total_posts is 0 and otherwise
\* buckets percentage = mention_count / total_posts * 100 with strict
\* thresholds: > 25 very_common, > 10 common, > 3 uncommon, else rare; the
\* values 25, 10 and 3 themselves fall in the lower bucket.
C13_FrequencyBuckets ==
    frequency # "none" =>
        /\ total_posts = 0 => frequency = "rare"
        /\ total_posts > 0 =>
            /\ frequency = "very_common" <=> 100 * mention_count > 25 * total_posts
            /\ frequency = "common" <=>
                  (100 * mention_count > 10 * total_posts /\ 100 * mention_count <= 25 * total_posts)
            /\ frequency = "uncommon" <=>
                  (100 * mention_count > 3 * total_posts /\ 100 * mention_count <= 10 * total_posts)
            /\ frequency = "rare" <=> 100 * mention_count <= 3 * total_posts

\* C13 witness: 25 mentions in 100 posts, exactly 25%, were classified common.
C13_Witness ==
    /\ total_posts = 100
    /\ mention_count = 25
    /\ frequency = "common"

---------------------------------------------------------------------------
(* MockRedditScraper.extract_issues, src/scrapers/reddit_scraper.py.      *)
(* A raw record: sentiment, content, date, source_url, and for each of    *)
(* content, date and source_url whether the dict has the key at all.      *)

issue_patterns ==
    << [ pattern |-> <<"f", "l", "i", "c", "k", "e", "r">>,
         title |-> <<"F", "l", "i", "c", "k", "e", "r", "i", "n", "g", " ", "i", "s", "s", "u", "e", "s", " ", "r", "e", "p", "o", "r", "t", "e", "d">> ],
       [ pattern |-> <<"d", "e", "a", "d", " ", "p", "i", "x", "e", "l">>,
         title |-> <<"D", "e", "a", "d", " ", "p", "i", "x", "e", "l", "s", " ", "o", "n", " ", "d", "e", "l", "i", "v", "e", "r", "y">> ],
       [ pattern |-> <<"b", "a", "c", "k", "l", "i", "g", "h", "t", " ", "b", "l", "e", "e", "d">>,
         title |-> <<"B", "a", "c", "k", "l", "i", "g", "h", "t", " ", "b", "l", "e", "e", "d", " ", "i", "s", "s", "u", "e", "s">> ],
       [ pattern |-> <<"b", "u", "r", "n", "-", "i", "n">>,
         title |-> <<"O", "L", "E", "D", " ", "b", "u", "r", "n", "-", "i", "n", " ", "c", "o", "n", "c", "e", "r", "n", "s">> ],
       [ pattern |-> <<"s", "c", "a", "n", " ", "l", "i", "n", "e">>,
         title |-> <<"V", "i", "s", "i", "b", "l", "e", " ", "s", "c", "a", "n", " ", "l", "i", "n", "e", "s">> ],
       [ pattern |-> <<"q", "u", "a", "l", "i", "t", "y", " ", "c", "o", "n", "t", "r", "o", "l">>,
         title |-> <<"Q", "u", "a", "l", "i", "t", "y", " ", "c", "o", "n", "t", "r", "o", "l", " ", "p", "r", "o", "b", "l", "e", "m", "s">> ],
       [ pattern |-> <<"d", "e", "f", "e", "c", "t">>,
         title |-> <<"M", "a", "n", "u", "f", "a", "c", "t", "u", "r", "i", "n", "g", " ", "d", "e", "f", "e", "c", "t", "s", " ", "r", "e", "p", "o", "r", "t", "e", "d">> ] >>

(* p.get('content', '').lower() *)
ContentLower(p) == IF p.has_content THEN StrLower(p.content) ELSE <<>>

(* pattern in p.get('content', '').lower() *)
Mentions(p, pattern) == Contains(ContentLower(p), pattern)

(* Mutant: every post taken, whatever its sentiment. *)
NegativePostsUnfiltered(raw) == raw

(* negative_posts = [p for p in raw_data if p.get('sentiment') == 'negative'] *)
NegativePosts(raw) == SelectSeq(raw, LAMBDA p : p.sentiment = "negative")

(* The negative posts whose content holds the pattern, in pool order. *)
MatchingPosts(negs, pattern) == SelectSeq(negs, LAMBDA p : Mentions(p, pattern))

(* Mutant: the set of seen titles never consulted. *)
AlreadySeenIgnored(title, seen) == FALSE

(* title not in seen_issues, negated *)
AlreadySeen(title, seen) == title \in seen

(* Mutant: the set of seen titles kept from the previous call. *)
InitialSeenKept(carried) == carried

(* seen_issues = set(): a local, empty at every call, whatever the previous *)
(* call left behind.                                                       *)
InitialSeen(carried) == {}

FirstN(sq, n) == SubSeq(sq, 1, Min(Len(sq), n))

RECURSIVE MinDate(_)
MinDate(posts) ==
    IF Len(posts) = 1 THEN posts[1].date
    ELSE Min(posts[1].date, MinDate(Tail(posts)))

(* The dict appended for one (pattern, title); description, a constant     *)
(* text around the pattern, is left out.                                   *)
MakeIssue(sig, negs, total) ==
    LET matching == MatchingPosts(negs, sig.pattern)
        count == Len(matching)
    IN  [ title |-> sig.title,
          severity |-> ClassifySeverity(sig.title, count),
          frequency |-> ClassifyFrequency(count, total),
          mention_count |-> count,
          affected_percentage |-> AffectedTenths(count, total),
          source_urls |-> FirstN([i \in 1..count |-> matching[i].source_url], 5),
          first_reported |-> MinDate(matching),
          status |-> "ongoing" ]

(* p['source_url'] or p['date'] of a matching post raises KeyError. *)
IssueRaises(sig, negs) ==
    \E i \in 1..Len(negs) :
        Mentions(negs[i], sig.pattern) /\ (~negs[i].has_url \/ ~negs[i].has_date)

(* The inner loop over issue_patterns for one post, from pattern k on.     *)
(* acc: the issues appended so far, the seen titles, whether it raised.    *)
RECURSIVE ScanPatterns(_, _, _, _, _)
ScanPatterns(post, negs, total, k, acc) ==
    IF k > Len(issue_patterns) \/ acc.raised THEN acc
    ELSE LET sig == issue_patterns[k]
         IN  IF Mentions(post, sig.pattern) /\ ~AlreadySeen(sig.title, acc.seen)
             THEN IF IssueRaises(sig, negs)
                  THEN [acc EXCEPT !.seen = acc.seen \cup {sig.title}, !.raised = TRUE]
                  ELSE ScanPatterns(post, negs, total, k + 1,
                          [ issues |-> Append(acc.issues, MakeIssue(sig, negs, total)),
                            seen |-> acc.seen \cup {sig.title},
                            raised |-> FALSE ])
             ELSE ScanPatterns(post, negs, total, k + 1, acc)

(* The outer loop over negative_posts, from post i on. *)
RECURSIVE ScanPosts(_, _, _, _)
ScanPosts(negs, total, i, acc) ==
    IF i > Len(negs) \/ acc.raised THEN acc
    ELSE ScanPosts(negs, total, i + 1, ScanPatterns(negs[i], negs, total, 1, acc))

(* sorted(issues, key=mention_count, reverse=True): stable, descending. *)
RECURSIVE InsertByMentions(_, _)
InsertByMentions(sorted, x) ==
    IF sorted = <<>> THEN <<x>>
    ELSE IF Head(sorted).mention_count >= x.mention_count
         THEN <<Head(sorted)>> \o InsertByMentions(Tail(sorted), x)
         ELSE <<x>> \o sorted

RECURSIVE SortedByMentions(_)
SortedByMentions(sq) ==
    IF sq = <<>> THEN <<>>
    ELSE InsertByMentions(SortedByMentions(SubSeq(sq, 1, Len(sq) - 1)), sq[Len(sq)])

(* One call: the outcome and the set of seen titles it ends with. *)
ExtractIssues(raw, carried) ==
    LET negs == NegativePosts(raw)
        start == [issues |-> <<>>, seen |-> InitialSeen(carried), raised |-> FALSE]
        acc == IF negs = <<>> THEN start ELSE ScanPosts(negs, Len(raw), 1, start)
    IN  [ seen |-> acc.seen,
          out |-> IF acc.raised
                  THEN [outcome |-> "raised", by |-> "reddit", issues |-> <<>>]
                  ELSE [outcome |-> "returned", by |-> "reddit",
                        issues |-> SortedByMentions(acc.issues)] ]

(* Pools of well-formed records.  The url of a record is its place in the  *)
(* pool, and its date falls with its place: the last record is the oldest. *)
MaxPool == 2
MaxRuns == 2

Sentiments == {"negative", "positive", "neutral"}
Contents ==
    { <<"F", "L", "I", "C", "K", "E", "R">>,
      <<"d", "e", "f", "e", "c", "t">>,
      <<"f", "l", "i", "c", "k", "e", "r", " ", "d", "e", "f", "e", "c", "t">>,
      <<"o", "k">> }

RawShapes == [sentiment : Sentiments, content : Contents]

WellFormed(shape, place, size) ==
    [ sentiment |-> shape.sentiment, content |-> shape.content,
      date |-> size - place + 1, source_url |-> place,
      has_content |-> TRUE, has_url |-> TRUE, has_date |-> TRUE ]

Pools(n) ==
    { [i \in 1..Len(sq) |-> WellFormed(sq[i], i, Len(sq))] : sq \in SeqsUpTo(RawShapes, n) }

InitExtract ==
    /\ raw_data \in Pools(MaxPool)
    /\ seen_issues = {}
    /\ extracted = NoExtraction
    /\ first_run = NoExtraction
    /\ runs = 0
    /\ issue_text = <<>>
    /\ mention_count = 0
    /\ severity = "none"
    /\ before = NoBefore
    /\ ScoreIdle
    /\ StoreIdle
    /\ FrequencyIdle

Extract ==
    /\ runs < MaxRuns
    /\ LET call == ExtractIssues(raw_data, seen_issues)
       IN  /\ extracted' = call.out
           /\ seen_issues' = call.seen
           /\ first_run' = IF runs = 0 THEN call.out ELSE first_run
    /\ runs' = runs + 1
    /\ UNCHANGED <<scoreVars, severityVars, before, frequencyVars, raw_data, storeVars>>

NextExtract == Extract

SpecExtract == InitExtract /\ [][NextExtract]_vars

Extracted == runs > 0 /\ extracted.outcome = "returned"

IssueTitles == { issue_patterns[k].title : k \in 1..Len(issue_patterns) }

(* C15: extract_issues yields at most one issue per signature, however many *)
(* records match it: never more issues than the signature table has rows,   *)
(* no two issues with the same title, every title one of the table.         *)
C15_OneIssuePerSignature ==
    Extracted =>
        /\ Len(extracted.issues) <= Len(issue_patterns)
        /\ \A i, j \in 1..Len(extracted.issues) :
               extracted.issues[i].title = extracted.issues[j].title => i = j
        /\ \A i \in 1..Len(extracted.issues) : extracted.issues[i].title \in IssueTitles

(* Two records of the pool matched one signature, and one issue came out. *)
C15_Witness ==
    /\ Extracted
    /\ Len(extracted.issues) = 1
    /\ extracted.issues[1].mention_count = 2

(* The records that count for a pattern, found without the lower-casing of  *)
(* the code: negative, and the pattern in the text whatever the case.       *)
NegativeMentions(pattern) ==
    { i \in 1..Len(raw_data) :
        /\ raw_data[i].sentiment = "negative"
        /\ Contains(StrUpper(raw_data[i].content), StrUpper(pattern)) }

(* C16: the mention_count of every returned issue is the number of negative *)
(* records of the pool whose text contains the issue's pattern, case aside; *)
(* positive and neutral records never count; a signature no negative record *)
(* matches yields no issue.                                                 *)
C16_MentionCountIsNegativeMatches ==
    Extracted =>
        \A k \in 1..Len(issue_patterns) :
            LET sig == issue_patterns[k]
                found == { i \in 1..Len(extracted.issues) :
                             extracted.issues[i].title = sig.title }
            IN  /\ \A i \in found :
                       extracted.issues[i].mention_count =
                           Cardinality(NegativeMentions(sig.pattern))
                /\ NegativeMentions(sig.pattern) = {} => found = {}

(* A positive record and an upper-case negative record mention the same     *)
(* pattern; the issue counts the negative one only.                         *)
C16_Witness ==
    /\ Extracted
    /\ Len(raw_data) = 2
    /\ raw_data[1].sentiment = "positive"
    /\ raw_data[1].content = <<"f", "l", "i", "c", "k", "e", "r", " ", "d", "e", "f", "e", "c", "t">>
    /\ raw_data[2].sentiment = "negative"
    /\ raw_data[2].content = <<"F", "L", "I", "C", "K", "E", "R">>
    /\ Len(extracted.issues) = 1
    /\ extracted.issues[1].mention_count = 1

SignatureIndex(title) == CHOOSE k \in 1..Len(issue_patterns) : issue_patterns[k].title = title

(* C17: the returned sequence is ordered by mention_count descending, and   *)
(* issues with equal mention_count stand in the order of their signatures   *)
(* in the table, whichever record mentioned which signature first.          *)
C17_TiesInSignatureOrder ==
    Extracted =>
        \A i, j \in 1..Len(extracted.issues) :
            i < j =>
                /\ extracted.issues[i].mention_count >= extracted.issues[j].mention_count
                /\ extracted.issues[i].mention_count = extracted.issues[j].mention_count
                       => SignatureIndex(extracted.issues[i].title)
                              < SignatureIndex(extracted.issues[j].title)

(* The descending order alone, which the sort does give. *)
DescendingByMentions ==
    Extracted =>
        \A i, j \in 1..Len(extracted.issues) :
            i < j => extracted.issues[i].mention_count >= extracted.issues[j].mention_count

(* C18: a second call on the same pool returns the sequence the first call  *)
(* returned: nothing of the first call is carried into the second.          *)
C18_Idempotent == runs >= 2 => extracted = first_run

(* Two calls made, on a pool that yields two issues. *)
C18_Witness ==
    /\ runs = 2
    /\ extracted.outcome = "returned"
    /\ Len(extracted.issues) = 2
    /\ seen_issues # {}

---------------------------------------------------------------------------
(* extract_issues on pools with records that lack a key: source_url,      *)
(* content or date.                                                        *)

MissingKeys == {"nothing", "source_url", "content", "date"}

MalformedSentiments == {"negative", "positive"}
MalformedContents ==
    { <<"F", "L", "I", "C", "K", "E", "R">>,
      <<"d", "e", "f", "e", "c", "t">> }

MalformedShapes ==
    [sentiment : MalformedSentiments, content : MalformedContents, missing : MissingKeys]

Lacking(shape, place, size) ==
    [ sentiment |-> shape.sentiment,
      content |-> IF shape.missing = "content" THEN <<>> ELSE shape.content,
      date |-> IF shape.missing = "date" THEN 0 ELSE size - place + 1,
      source_url |-> IF shape.missing = "source_url" THEN 0 ELSE place,
      has_content |-> shape.missing # "content",
      has_url |-> shape.missing # "source_url",
      has_date |-> shape.missing # "date" ]

MalformedPools(n) ==
    { [i \in 1..Len(sq) |-> Lacking(sq[i], i, Len(sq))] : sq \in SeqsUpTo(MalformedShapes, n) }

InitMalformed ==
    /\ raw_data \in MalformedPools(MaxPool)
    /\ seen_issues = {}
    /\ extracted = NoExtraction
    /\ first_run = NoExtraction
    /\ runs = 0
    /\ issue_text = <<>>
    /\ mention_count = 0
    /\ severity = "none"
    /\ before = NoBefore
    /\ ScoreIdle
    /\ StoreIdle
    /\ FrequencyIdle

SpecMalformed == InitMalformed /\ [][NextExtract]_vars

HasAllKeys(p) == p.has_content /\ p.has_url /\ p.has_date

(* C20: when the pool holds a record that lacks its url, text or timestamp, *)
(* extract_issues does not raise and returns the issues of the pool without *)
(* the records that lack a key.                                             *)
C20_MalformedDropped ==
    (runs > 0 /\ \E i \in 1..Len(raw_data) : ~HasAllKeys(raw_data[i])) =>
        /\ extracted.outcome = "returned"
        /\ extracted = ExtractIssues(SelectSeq(raw_data, HasAllKeys), {}).out

(* The part that holds: a record that lacks its text matches no pattern,   *)
(* and a pool whose records lack nothing else is extracted without a raise. *)
MissingContentTolerated ==
    (runs > 0 /\ \A i \in 1..Len(raw_data) : raw_data[i].has_url /\ raw_data[i].has_date) =>
        extracted.outcome = "returned"

---------------------------------------------------------------------------
(* The extractors of the structured sources:                               *)
(* CPSCScraper.extract_issues, src/scrapers/cpsc_scraper.py, and           *)
(* IFixitScraper.extract_issues, src/scrapers/ifixit_scraper.py.           *)
(* An item is a record; a key the dict lacks is a field the record lacks,  *)
(* and item.get(key) is then None.                                         *)

HasKey(item, key) == key \in DOMAIN item

(* item.get('recall_id'), as a condition: the key is there and not empty. *)
HasRecallId(item) == HasKey(item, "recall_id") /\ item.recall_id # ""

(* item.get('injury') == 'Yes' or 'fire' in item.get('hazard', '').lower() *)
RecallSeverity(item) ==
    IF \/ (HasKey(item, "injury") /\ item.injury = "Yes")
       \/ (HasKey(item, "hazard") /\ Contains(StrLower(item.hazard), <<"f", "i", "r", "e">>))
    THEN "critical"
    ELSE "high"

RecallIssue(item) ==
    [ title |-> "RECALL",
      severity |-> RecallSeverity(item),
      mention_count |-> 1,
      source_urls |-> <<item.source_url>>,
      status |-> "ongoing" ]

CpscExtractIssues(raw) ==
    LET recalls == SelectSeq(raw, HasRecallId)
    IN  [i \in 1..Len(recalls) |-> RecallIssue(recalls[i])]

(* Mutant: the threshold taken one lower. *)
PoorRepairabilityBelow(score) == score < 4

(* score <= 4 *)
PoorRepairability(score) == score <= 4

(* score is not None and score <= 4 *)
HasPoorScore(item) ==
    HasKey(item, "repairability_score") /\ PoorRepairability(item.repairability_score)

RepairIssue(item) ==
    [ title |-> [text |-> "Poor repairability score", score |-> item.repairability_score],
      severity |-> IF item.repairability_score > 2 THEN "medium" ELSE "high",
      mention_count |-> 1,
      source_urls |-> <<item.source_url>>,
      status |-> "ongoing" ]

IFixitExtractIssues(raw) ==
    LET poor == SelectSeq(raw, HasPoorScore)
    IN  [i \in 1..Len(poor) |-> RepairIssue(poor[i])]

(* Items as the scrapers build them: a recall (cpsc_scraper.py:66-77), an  *)
(* incident report, which has no recall_id (104-112), a device with or     *)
(* without a repairability score (ifixit_scraper.py:72-80).                *)
RecallIds == {"R1", "R2"}
Hazards == { <<"F", "i", "r", "e">>, <<"s", "h", "o", "c", "k">> }
ItemScores == {0, 2, 3, 4, 5, 10}

RecallItems == [recall_id : RecallIds, hazard : Hazards]
IncidentItems == [incident_id : {"I1"}, injury : {"Yes", "No"}]
InjuryRecallItems == [recall_id : RecallIds, hazard : Hazards, injury : {"Yes"}]
DeviceItems == [repairability_score : ItemScores] \cup {[guides_count |-> 0]}

(* The item with its source_url, which is its place in the pool. *)
Placed(item, place) ==
    [k \in DOMAIN item \cup {"source_url"} |-> IF k = "source_url" THEN place ELSE item[k]]

StructuredPools(items, n) ==
    { [i \in 1..Len(sq) |-> Placed(sq[i], i)] : sq \in SeqsUpTo(items, n) }

InitStructured ==
    /\ raw_data \in StructuredPools(RecallItems \cup IncidentItems \cup InjuryRecallItems, MaxPool)
                      \cup StructuredPools(DeviceItems, MaxPool)
    /\ seen_issues = {}
    /\ extracted = NoExtraction
    /\ first_run = NoExtraction
    /\ runs = 0
    /\ issue_text = <<>>
    /\ mention_count = 0
    /\ severity = "none"
    /\ before = NoBefore
    /\ ScoreIdle
    /\ StoreIdle
    /\ FrequencyIdle

CpscExtract ==
    /\ runs < MaxRuns
    /\ extracted' = [outcome |-> "returned", by |-> "cpsc", issues |-> CpscExtractIssues(raw_data)]
    /\ runs' = runs + 1
    /\ UNCHANGED <<scoreVars, severityVars, before, frequencyVars, raw_data, seen_issues, first_run, storeVars>>

IFixitExtract ==
    /\ runs < MaxRuns
    /\ extracted' = [outcome |-> "returned", by |-> "ifixit", issues |-> IFixitExtractIssues(raw_data)]
    /\ runs' = runs + 1
    /\ UNCHANGED <<scoreVars, severityVars, before, frequencyVars, raw_data, seen_issues, first_run, storeVars>>

NextStructured == CpscExtract \/ IFixitExtract

SpecStructured == InitStructured /\ [][NextStructured]_vars

(* The places of the pool an issue of the returned sequence came from. *)
IssuesFrom(place) ==
    { i \in 1..Len(extracted.issues) : extracted.issues[i].source_urls = <<place>> }

(* C19: the recall extractor returns exactly one issue for every record of  *)
(* the pool that carries a recall id and none for any other record; the     *)
(* repair extractor returns exactly one issue for every record whose        *)
(* repairability score is at most 4 and none for any other record.          *)
C19_OneIssuePerStructuredRecord ==
    /\ extracted.by = "cpsc" =>
           \A place \in 1..Len(raw_data) :
               Cardinality(IssuesFrom(place)) =
                   IF "recall_id" \in DOMAIN raw_data[place] THEN 1 ELSE 0
    /\ extracted.by = "ifixit" =>
           \A place \in 1..Len(raw_data) :
               Cardinality(IssuesFrom(place)) =
                   IF /\ "repairability_score" \in DOMAIN raw_data[place]
                      /\ raw_data[place].repairability_score < 5
                   THEN 1 ELSE 0
    /\ extracted.by \in {"cpsc", "ifixit"} =>
           \A i \in 1..Len(extracted.issues) :
               \E place \in 1..Len(raw_data) : i \in IssuesFrom(place)

(* The repair extractor worked on a device of score 4 and one of score 5   *)
(* and returned one issue, for the first.                                  *)
C19_Witness ==
    /\ extracted.by = "ifixit"
    /\ Len(raw_data) = 2
    /\ "repairability_score" \in DOMAIN raw_data[1]
    /\ raw_data[1].repairability_score = 4
    /\ "repairability_score" \in DOMAIN raw_data[2]
    /\ raw_data[2].repairability_score = 5
    /\ Len(extracted.issues) = 1
    /\ extracted.issues[1].source_urls = <<1>>

---------------------------------------------------------------------------
(* The scenario of the test block of src/src/scoring.py (lines 230-251)    *)
(* and its neighbours: two issues of 150 and 50 mentions, two positives,   *)
(* a recall summary without recalls or none, a repairability score.        *)

ScenarioIssues ==
    { <<[severity |-> a, mention_count |-> 150], [severity |-> b, mention_count |-> 50]>> :
        a \in Severities, b \in Severities }
ScenarioPositives ==
    { <<[mention_count |-> m], [mention_count |-> n]>> : m \in {100, 200}, n \in {100, 200} }
ScenarioRecalls == {RecallNone, RecallSummary(0)}
ScenarioRepairs == {RepairFound(5), RepairFound(6), RepairFound(7)}

InitScenario ==
    /\ issues \in ScenarioIssues
    /\ positives \in ScenarioPositives
    /\ recall_data \in ScenarioRecalls
    /\ repairability \in ScenarioRepairs
    /\ result = NoResult
    /\ pc = "start"
    /\ SeverityIdle

SpecScenario == InitScenario /\ [][Next]_vars

(* test_issues, test_positives, test_recalls, test_repair of the test block *)
IsTestScenario ==
    /\ issues = <<[severity |-> "high", mention_count |-> 150],
                  [severity |-> "low", mention_count |-> 50]>>
    /\ positives = <<[mention_count |-> 200], [mention_count |-> 100]>>
    /\ ~RecallCounted(recall_data)
    /\ repairability = RepairFound(6)

(* C28: for issues [{high, 150}, {low, 50}], positives of 200 and 100      *)
(* mentions, no recalls and repairability score 6, the breakdown has       *)
(* repairability_adjustment 1.5 and positive_bonus 10, the cap.            *)
C28_ScenarioBonusAtCap ==
    (Done /\ IsTestScenario) =>
        /\ result.breakdown.repairability_adjustment = 15
        /\ result.breakdown.positive_bonus = 100

(* C28, amended: in that scenario repairability_adjustment is 1.5 and      *)
(* positive_bonus is 5.0, the sum of 3 and 2, below the cap.               *)
C28_ScenarioBonusFive ==
    (Done /\ IsTestScenario) =>
        /\ result.breakdown.repairability_adjustment = 15
        /\ result.breakdown.positive_bonus = 50

(* The scenario was computed. *)
C28_Witness ==
    /\ Done
    /\ IsTestScenario
    /\ result.breakdown.positive_bonus = 50
    /\ result.score = 77
    /\ result.breakdown.issue_penalty = 293

---------------------------------------------------------------------------
(* populate_database, src/scripts/populate_db.py, and the persistence of   *)
(* src/src/scoring.py on the tables of src/src/database.py.                *)
(* A row carries, next to its columns, the number of the run that wrote it *)
(* (field run; a score row also the answers of the sources, field feed):   *)
(* these are not columns, they only tell the rows' origins apart.          *)

(* The first two of the ten products of MONITORS, by id. *)
MONITORS ==
    << <<"s", "a", "m", "s", "u", "n", "g", "-", "o", "d", "y", "s", "s", "e", "y", "-", "g", "9", "-", "2", "0", "2", "4">>,
       <<"l", "g", "-", "2", "7", "g", "p", "9", "5", "0", "-", "b">> >>

(* p.category of a products row: every product of MONITORS is a monitor. *)
CategoryOf(product_id) == "monitors"

(* hash(title) % 10000 under CPython 3.11 with PYTHONHASHSEED 0 and 936.   *)
(* The seed is drawn anew by every process unless the variable is set.     *)
Seeds == {0, 936}

HashMod10000(seed, title) ==
    CASE seed = 0 /\ title = "Dead pixels on delivery" -> 3046
      [] seed = 0 /\ title = "Manufacturing defects reported" -> 228
      [] seed = 0 /\ title = "Excellent color quality" -> 4626
      [] seed = 0 /\ title = "RECALL: Samsung Monitors" -> 3316
      [] seed = 0 /\ title = "Poor repairability score (3/10)" -> 2142
      [] seed = 936 /\ title = "Dead pixels on delivery" -> 616
      [] seed = 936 /\ title = "Manufacturing defects reported" -> 616
      [] seed = 936 /\ title = "Excellent color quality" -> 9334
      [] seed = 936 /\ title = "RECALL: Samsung Monitors" -> 6879
      [] seed = 936 /\ title = "Poor repairability score (3/10)" -> 6621

DigitChars == <<"0", "1", "2", "3", "4", "5", "6", "7", "8", "9">>

(* the format :04d of a number in 0..9999 *)
Digits4(n) ==
    << DigitChars[((n \div 1000) % 10) + 1], DigitChars[((n \div 100) % 10) + 1],
       DigitChars[((n \div 10) % 10) + 1], DigitChars[(n % 10) + 1] >>

(* Mutant: the id without the product's id in front. *)
IssueIdUnprefixed(product_id, residue) == Digits4(residue)

(* f"{product_id}-{hash(issue['title']) % 10000:04d}" *)
IssueId(product_id, residue) == product_id \o <<"-">> \o Digits4(residue)

(* f"{product_id}-pos-{hash(positive['title']) % 10000:04d}" *)
PositiveId(product_id, residue) ==
    product_id \o <<"-", "p", "o", "s", "-">> \o Digits4(residue)

(* What the sources answer.  Issues and positives are the dicts the        *)
(* extractors return, with the keys that persistence and scoring read;     *)
(* source_type and source_count stand for source_urls.                     *)
DeadPixels(mentions) ==
    [ title |-> "Dead pixels on delivery", severity |-> "high", mention_count |-> mentions,
      source_type |-> "reddit", source_count |-> mentions ]
Defects(mentions) ==
    [ title |-> "Manufacturing defects reported", severity |-> "high", mention_count |-> mentions,
      source_type |-> "reddit", source_count |-> mentions ]
ColorQuality(mentions) == [title |-> "Excellent color quality", mention_count |-> mentions]
RecallIssueDict ==
    [ title |-> "RECALL: Samsung Monitors", severity |-> "high", mention_count |-> 1,
      source_type |-> "other", source_count |-> 1 ]
PoorRepairIssue ==
    [ title |-> "Poor repairability score (3/10)", severity |-> "medium", mention_count |-> 1,
      source_type |-> "other", source_count |-> 1 ]

RedditRaises == [raised |-> TRUE, issues |-> <<>>, positives |-> <<>>]
RedditNothing == [raised |-> FALSE, issues |-> <<>>, positives |-> <<>>]
RedditTwoIssues ==
    [raised |-> FALSE, issues |-> <<DeadPixels(2), Defects(1)>>, positives |-> <<ColorQuality(2)>>]
RedditOneIssue == [raised |-> FALSE, issues |-> <<DeadPixels(1)>>, positives |-> <<>>]

CpscRaises == [raised |-> TRUE, has_recalls |-> FALSE, recall_count |-> 0, recalls |-> <<>>]
CpscNoRecall == [raised |-> FALSE, has_recalls |-> FALSE, recall_count |-> 0, recalls |-> <<>>]
CpscOneRecall ==
    [raised |-> FALSE, has_recalls |-> TRUE, recall_count |-> 1, recalls |-> <<RecallIssueDict>>]

IFixitRaises ==
    [ raised |-> TRUE, found |-> FALSE, has_score |-> FALSE, repairability_score |-> 0,
      issues |-> <<>>, positives |-> <<>> ]
IFixitNotFound ==
    [ raised |-> FALSE, found |-> FALSE, has_score |-> FALSE, repairability_score |-> 0,
      issues |-> <<>>, positives |-> <<>> ]
IFixitPoor ==
    [ raised |-> FALSE, found |-> TRUE, has_score |-> TRUE, repairability_score |-> 3,
      issues |-> <<PoorRepairIssue>>, positives |-> <<>> ]

(* Every subset of the three sources raising, the others answering with    *)
(* evidence; and the three sources answering that they have nothing.       *)
FailingFeeds ==
    [ reddit : {RedditRaises, RedditTwoIssues},
      cpsc : {CpscRaises, CpscOneRecall},
      ifixit : {IFixitRaises, IFixitPoor} ]
EmptyFeed == [reddit |-> RedditNothing, cpsc |-> CpscNoRecall, ifixit |-> IFixitNotFound]

(* Discussion evidence that changes from one run to the next. *)
ChangingFeeds ==
    { [reddit |-> r, cpsc |-> CpscNoRecall, ifixit |-> IFixitNotFound] :
        r \in {RedditTwoIssues, RedditOneIssue} }

SeqsOfLen(S, n) == { sq \in SeqsUpTo(S, n) : Len(sq) = n }

(* populate_db.py:141-184, the three try blocks *)
GatheredIssues(feed) ==
    (IF feed.reddit.raised THEN <<>> ELSE feed.reddit.issues)
    \o (IF ~feed.cpsc.raised /\ feed.cpsc.has_recalls THEN feed.cpsc.recalls ELSE <<>>)
    \o (IF ~feed.ifixit.raised /\ feed.ifixit.found THEN feed.ifixit.issues ELSE <<>>)

GatheredPositives(feed) ==
    (IF feed.reddit.raised THEN <<>> ELSE feed.reddit.positives)
    \o (IF ~feed.ifixit.raised /\ feed.ifixit.found THEN feed.ifixit.positives ELSE <<>>)

(* recall_data: the summary, or {"has_recalls": False, "recall_count": 0} *)
GatheredRecallData(feed) ==
    IF feed.cpsc.raised THEN RecallSummary(0)
    ELSE [given |-> TRUE, has_recalls |-> feed.cpsc.has_recalls,
          recall_count |-> feed.cpsc.recall_count]

(* repair_data: the summary, or {"found": False} *)
GatheredRepairData(feed) ==
    IF feed.ifixit.raised \/ ~feed.ifixit.found THEN RepairNotFound
    ELSE IF feed.ifixit.has_score THEN RepairFound(feed.ifixit.repairability_score)
    ELSE RepairNoScore

AnySourceRaised(feed) == feed.reddit.raised \/ feed.cpsc.raised \/ feed.ifixit.raised

(* Mutant: an exception of a source leaves the run. *)
AfterGatherUncaught(feed) == IF AnySourceRaised(feed) THEN "raised" ELSE "calculate"

(* Every try block has its except Exception: the run goes on. *)
AfterGather(feed) == "calculate"

(* Mutant: the score row of the product replaced in place. *)
InsertScoreInPlace(table, row) ==
    IF \E i \in 1..Len(table) : table[i].product_id = row.product_id
    THEN [i \in 1..Len(table) |->
            IF table[i].product_id = row.product_id
            THEN [row EXCEPT !.id = table[i].id] ELSE table[i]]
    ELSE Append(table, [row EXCEPT !.id = Len(table) + 1])

(* INSERT INTO reliability_scores: a new row under the next autoincrement id *)
InsertScore(table, row) == Append(table, [row EXCEPT !.id = Len(table) + 1])

(* INSERT OR REPLACE on a table whose primary key is id *)
InsertOrReplace(table, row) == { r \in table : r.id # row.id } \cup {row}

(* INSERT OR REPLACE INTO issue_sources, primary key (issue_id, source_type) *)
InsertOrReplaceSource(table, row) ==
    { r \in table : ~(r.issue_id = row.issue_id /\ r.source_type = row.source_type) } \cup {row}

IssueRow(product_id, issue, seed, run) ==
    [ id |-> IssueId(product_id, HashMod10000(seed, issue.title)),
      product_id |-> product_id, title |-> issue.title, severity |-> issue.severity,
      mention_count |-> issue.mention_count, run |-> run ]

SourceRow(product_id, issue, seed) ==
    [ issue_id |-> IssueId(product_id, HashMod10000(seed, issue.title)),
      source_type |-> issue.source_type, source_count |-> issue.source_count ]

PositiveRow(product_id, positive, seed, run) ==
    [ id |-> PositiveId(product_id, HashMod10000(seed, positive.title)),
      product_id |-> product_id, title |-> positive.title,
      mention_count |-> positive.mention_count, run |-> run ]

(* The loops of save_issues and save_positives, committed at their end. *)
RECURSIVE SavedIssues(_, _, _, _, _)
SavedIssues(table, product_id, iss, seed, run) ==
    IF iss = <<>> THEN table
    ELSE SavedIssues(InsertOrReplace(table, IssueRow(product_id, Head(iss), seed, run)),
                     product_id, Tail(iss), seed, run)

RECURSIVE SavedSources(_, _, _, _)
SavedSources(table, product_id, iss, seed) ==
    IF iss = <<>> THEN table
    ELSE SavedSources(IF Head(iss).source_count > 0
                      THEN InsertOrReplaceSource(table, SourceRow(product_id, Head(iss), seed))
                      ELSE table,
                      product_id, Tail(iss), seed)

RECURSIVE SavedPositives(_, _, _, _, _)
SavedPositives(table, product_id, pos, seed, run) ==
    IF pos = <<>> THEN table
    ELSE SavedPositives(InsertOrReplace(table, PositiveRow(product_id, Head(pos), seed, run)),
                        product_id, Tail(pos), seed, run)

ScoreRow(product_id, score_data, run, feed) ==
    [ id |-> 0, product_id |-> product_id, score |-> score_data.score,
      grade |-> score_data.grade, confidence |-> score_data.confidence,
      data_points |-> score_data.data_points, run |-> run, feed |-> feed ]

(* The entry of the log of computations for a product and run, marked. *)
MarkComputed(log, product_id, run, status) ==
    [i \in 1..Len(log) |->
        IF log[i].product_id = product_id /\ log[i].run = run
        THEN [log[i] EXCEPT !.status = status] ELSE log[i]]

RunningPcs == {"add_product", "gather", "calculate", "save_score", "save_issues", "save_positives"}

ProductOf(p) == MONITORS[procs[p].monitor]

(* A process starts populate_database: init_database creates the tables   *)
(* if they do not exist, and the scrapers are built.                       *)
Launch(p) ==
    /\ procs[p].pc \in {"idle", "done", "crashed"}
    /\ launches < MaxRuns
    /\ feeds # <<>>
    /\ \E seed \in Seeds :
           procs' = [procs EXCEPT ![p] =
                        [NoProc EXCEPT !.pc = "add_product", !.monitor = 1,
                                       !.seed = seed, !.run = launches + 1, !.at = "running"]]
    /\ launches' = launches + 1
    /\ UNCHANGED <<scoreVars, severityVars, before, frequencyVars, extractVars,
                   feeds, computed, tableVars, top_products>>

(* add_product: INSERT OR REPLACE INTO products *)
AddProduct(p) ==
    /\ procs[p].pc = "add_product"
    /\ products' = products \cup {ProductOf(p)}
    /\ procs' = [procs EXCEPT ![p].pc = "gather"]
    /\ UNCHANGED <<scoreVars, severityVars, before, frequencyVars, extractVars,
                   feeds, launches, computed, reliability_scores, issues_table,
                   issue_sources, positives_table, top_products>>

(* The three fetches of one product, each in its try block. *)
Gather(p) ==
    /\ procs[p].pc = "gather"
    /\ feeds # <<>>
    /\ LET feed == Head(feeds)
       IN  procs' = [procs EXCEPT ![p] =
                        [@ EXCEPT !.pc = AfterGather(feed),
                                  !.all_issues = GatheredIssues(feed),
                                  !.all_positives = GatheredPositives(feed),
                                  !.recall_data = GatheredRecallData(feed),
                                  !.repair_data = GatheredRepairData(feed),
                                  !.score_data = NoResult,
                                  !.feed = feed]]
    /\ feeds' = Tail(feeds)
    /\ UNCHANGED <<scoreVars, severityVars, before, frequencyVars, extractVars,
                   launches, computed, tableVars, top_products>>

CalculateScore(p) ==
    /\ procs[p].pc = "calculate"
    /\ procs' = [procs EXCEPT ![p] =
                    [@ EXCEPT !.pc = "save_score",
                              !.score_data = ScoreResult(procs[p].all_issues, procs[p].all_positives,
                                                         procs[p].recall_data, procs[p].repair_data)]]
    /\ computed' = Append(computed, [product_id |-> ProductOf(p), run |-> procs[p].run,
                                     status |-> "computed"])
    /\ UNCHANGED <<scoreVars, severityVars, before, frequencyVars, extractVars,
                   feeds, launches, tableVars, top_products>>

SaveReliabilityScore(p) ==
    /\ procs[p].pc = "save_score"
    /\ reliability_scores' =
           InsertScore(reliability_scores,
                       ScoreRow(ProductOf(p), procs[p].score_data, procs[p].run, procs[p].feed))
    /\ procs' = [procs EXCEPT ![p].pc = "save_issues"]
    /\ computed' = MarkComputed(computed, ProductOf(p), procs[p].run, "saved")
    /\ UNCHANGED <<scoreVars, severityVars, before, frequencyVars, extractVars,
                   feeds, launches, products, issues_table, issue_sources,
                   positives_table, top_products>>

SaveIssues(p) ==
    /\ procs[p].pc = "save_issues"
    /\ issues_table' = SavedIssues(issues_table, ProductOf(p), procs[p].all_issues,
                                   procs[p].seed, procs[p].run)
    /\ issue_sources' = SavedSources(issue_sources, ProductOf(p), procs[p].all_issues,
                                     procs[p].seed)
    /\ procs' = [procs EXCEPT ![p].pc = "save_positives"]
    /\ UNCHANGED <<scoreVars, severityVars, before, frequencyVars, extractVars,
                   feeds, launches, computed, products, reliability_scores,
                   positives_table, top_products>>

(* save_positives, then the next product of the loop or the end. *)
SavePositives(p) ==
    /\ procs[p].pc = "save_positives"
    /\ positives_table' = SavedPositives(positives_table, ProductOf(p), procs[p].all_positives,
                                         procs[p].seed, procs[p].run)
    /\ procs' = [procs EXCEPT ![p] =
                    IF procs[p].monitor < Len(MONITORS)
                    THEN [@ EXCEPT !.pc = "add_product", !.monitor = @ + 1]
                    ELSE [@ EXCEPT !.pc = "done", !.at = "done"]]
    /\ UNCHANGED <<scoreVars, severityVars, before, frequencyVars, extractVars,
                   feeds, launches, computed, products, reliability_scores,
                   issues_table, issue_sources, top_products>>

(* The process is killed where it stands. *)
Crash(p) ==
    /\ procs[p].pc \in RunningPcs
    /\ procs' = [procs EXCEPT ![p] = [@ EXCEPT !.pc = "crashed", !.at = procs[p].pc]]
    /\ computed' = IF procs[p].pc = "save_score"
                   THEN MarkComputed(computed, ProductOf(p), procs[p].run, "killed")
                   ELSE computed
    /\ UNCHANGED <<scoreVars, severityVars, before, frequencyVars, extractVars,
                   feeds, launches, tableVars, top_products>>

OthersIdle ==
    /\ issue_text = <<>>
    /\ mention_count = 0
    /\ severity = "none"
    /\ before = NoBefore
    /\ ScoreIdle
    /\ FrequencyIdle
    /\ ExtractIdle

StoreEmpty ==
    /\ procs = [p \in ProcIds |-> NoProc]
    /\ launches = 0
    /\ computed = <<>>
    /\ products = {}
    /\ reliability_scores = <<>>
    /\ issues_table = {}
    /\ issue_sources = {}
    /\ positives_table = {}
    /\ top_products = NoListing

(* One run of the script, the sources failing in every combination. *)
InitPopulate ==
    /\ feeds \in SeqsOfLen(FailingFeeds \cup {EmptyFeed}, Len(MONITORS))
    /\ StoreEmpty
    /\ OthersIdle

(* Process 1 runs the script, again after it ended or was killed. *)
NextPopulate ==
    \/ Launch(1)
    \/ AddProduct(1)
    \/ Gather(1)
    \/ CalculateScore(1)
    \/ SaveReliabilityScore(1)
    \/ SaveIssues(1)
    \/ SavePositives(1)
    \/ Crash(1)

SpecPopulate == InitPopulate /\ [][NextPopulate]_vars

(* The script run again and again on evidence that changes. *)
InitRecompute ==
    /\ feeds \in SeqsOfLen(ChangingFeeds, MaxRuns * Len(MONITORS))
    /\ StoreEmpty
    /\ OthersIdle

SpecRecompute == InitRecompute /\ [][NextPopulate]_vars

(* Two processes run the script at the same time on one database file:     *)
(* nothing in populate_database or in the save functions takes a lock, and *)
(* each save commits on its own connection, so the steps of the two        *)
(* interleave freely.                                                      *)
Started(p, seed) ==
    [NoProc EXCEPT !.pc = "add_product", !.monitor = 1, !.seed = seed, !.run = p,
                   !.at = "running"]

(* Both processes have been started on an empty database, each with the    *)
(* hash seed its interpreter drew.                                         *)
InitConcurrent ==
    /\ feeds \in SeqsOfLen(ChangingFeeds, Cardinality(ProcIds) * Len(MONITORS))
    /\ procs \in { [p \in ProcIds |-> Started(p, seeds[p])] : seeds \in [ProcIds -> Seeds] }
    /\ launches = Cardinality(ProcIds)
    /\ computed = <<>>
    /\ products = {}
    /\ reliability_scores = <<>>
    /\ issues_table = {}
    /\ issue_sources = {}
    /\ positives_table = {}
    /\ top_products = NoListing
    /\ OthersIdle

NextConcurrent ==
    \E p \in ProcIds :
        \/ AddProduct(p)
        \/ Gather(p)
        \/ CalculateScore(p)
        \/ SaveReliabilityScore(p)
        \/ SaveIssues(p)
        \/ SavePositives(p)

SpecConcurrent == InitConcurrent /\ [][NextConcurrent]_vars

(* get_top_products: the listing of a category *)

Categories == {"monitors", "keyboards"}

(* limit = min(int(request.args.get('limit', 5)), 20) *)
LimitCap == 20
Limits == {1, 5, 25}

(* products p JOIN reliability_scores rs ON p.id = rs.product_id           *)
(* WHERE p.category = ?: one result row per score row of a product of the  *)
(* category.                                                               *)
JoinedRows(category) ==
    { i \in 1..Len(reliability_scores) :
        /\ reliability_scores[i].product_id \in products
        /\ CategoryOf(reliability_scores[i].product_id) = category }

(* ORDER BY rs.score DESC: every order of the rows in which the scores     *)
(* descend; the order among equal scores is the engine's.                  *)
RECURSIVE DescOrders(_)
DescOrders(rows) ==
    IF rows = {} THEN { <<>> }
    ELSE UNION { { <<i>> \o rest : rest \in DescOrders(rows \ {i}) } :
                   i \in { i \in rows : \A j \in rows :
                             reliability_scores[j].score <= reliability_scores[i].score } }

(* The entries of the answer, ranked from 1. *)
Ranked(order) ==
    [ k \in 1..Len(order) |->
        [ rank |-> k, id |-> reliability_scores[order[k]].product_id,
          score |-> reliability_scores[order[k]].score,
          grade |-> reliability_scores[order[k]].grade,
          confidence |-> reliability_scores[order[k]].confidence ] ]

(* The request reads and writes nothing, so one request, made at any       *)
(* moment, stands for all of them.                                         *)
GetTopProducts ==
    /\ top_products = NoListing
    /\ \E category \in Categories, limit \in Limits :
         \E order \in DescOrders(JoinedRows(category)) :
            LET results == FirstN(order, Min(limit, LimitCap))
            IN  top_products' =
                    IF results = <<>>
                    THEN [outcome |-> "404", top_products |-> <<>>]
                    ELSE [outcome |-> "200", top_products |-> Ranked(results)]
    /\ UNCHANGED <<scoreVars, severityVars, before, frequencyVars, extractVars,
                   procs, feeds, launches, computed, tableVars>>

(* The script run again and again, and the listing asked for at any time. *)
NextListing ==
    \/ Launch(1)
    \/ AddProduct(1)
    \/ Gather(1)
    \/ CalculateScore(1)
    \/ SaveReliabilityScore(1)
    \/ SaveIssues(1)
    \/ SavePositives(1)
    \/ GetTopProducts

SpecListing == InitRecompute /\ [][NextListing]_vars

---------------------------------------------------------------------------
(* Claims on populate_database and the stored rows *)

ProductIds == { MONITORS[i] : i \in 1..Len(MONITORS) }

(* The feed with every raising source replaced by a source that answers    *)
(* and has nothing.                                                        *)
ZeroEvidence(feed) ==
    [ reddit |-> IF feed.reddit.raised THEN RedditNothing ELSE feed.reddit,
      cpsc |-> IF feed.cpsc.raised THEN CpscNoRecall ELSE feed.cpsc,
      ifixit |-> IF feed.ifixit.raised THEN IFixitNotFound ELSE feed.ifixit ]

ScoreOfFeed(feed) ==
    ScoreResult(GatheredIssues(feed), GatheredPositives(feed),
                GatheredRecallData(feed), GatheredRepairData(feed))

ScoreRowsOf(product_id, run) ==
    { i \in 1..Len(reliability_scores) :
        reliability_scores[i].product_id = product_id /\ reliability_scores[i].run = run }

(* C21: whichever of the three sources raise, the run of the product goes   *)
(* on: the source counts as one without evidence, the score is computed    *)
(* from the other sources and stored, and the loop goes to the next         *)
(* product.                                                                 *)
C21_FailingSourceNotFatal ==
    /\ \A p \in ProcIds :
        /\ procs[p].pc \in RunningPcs \cup {"idle", "done", "crashed"}
        /\ procs[p].pc \in {"save_score", "save_issues", "save_positives"} =>
               procs[p].score_data = ScoreOfFeed(ZeroEvidence(procs[p].feed))
        /\ procs[p].pc \in {"save_issues", "save_positives"} =>
               Cardinality(ScoreRowsOf(ProductOf(p), procs[p].run)) = 1
        /\ procs[p].pc = "done" =>
               \A product_id \in ProductIds :
                   Cardinality(ScoreRowsOf(product_id, procs[p].run)) = 1
    /\ \A i \in 1..Len(reliability_scores) :
           LET row == reliability_scores[i]
               expected == ScoreOfFeed(ZeroEvidence(row.feed))
           IN  /\ row.score = expected.score
               /\ row.grade = expected.grade
               /\ row.data_points = expected.data_points

(* The discussion and repair sources raised for the first product, the run *)
(* stored its score from the recall alone and went on to the end.          *)
C21_Witness ==
    /\ procs[1].pc = "done"
    /\ Len(reliability_scores) = 2
    /\ reliability_scores[1].feed.reddit.raised
    /\ ~reliability_scores[1].feed.cpsc.raised
    /\ reliability_scores[1].feed.ifixit.raised
    /\ reliability_scores[1].score = 65
    /\ reliability_scores[2].run = reliability_scores[1].run
    /\ reliability_scores[2].feed.cpsc.raised

RowsOfProduct(product_id) ==
    { i \in 1..Len(reliability_scores) : reliability_scores[i].product_id = product_id }

ComputedFor(product_id, status) ==
    { i \in 1..Len(computed) :
        computed[i].product_id = product_id /\ computed[i].status = status }

(* C22: the score history only grows.  Every computation whose run was not *)
(* killed before its save has exactly one score row, so a product has as    *)
(* many score rows as computations completed for it; and no step changes or *)
(* removes a row that is stored.                                            *)
C22_ScoreHistoryAppendOnly ==
    /\ [](\A product_id \in ProductIds :
            /\ Cardinality(RowsOfProduct(product_id))
                   = Cardinality(ComputedFor(product_id, "saved"))
            /\ \A i \in ComputedFor(product_id, "computed") :
                   \E p \in ProcIds :
                       /\ procs[p].pc = "save_score"
                       /\ procs[p].run = computed[i].run
                       /\ ProductOf(p) = product_id
            /\ \A i \in ComputedFor(product_id, "saved") :
                   Cardinality(ScoreRowsOf(product_id, computed[i].run)) = 1)
    /\ [][/\ Len(reliability_scores') \in {Len(reliability_scores), Len(reliability_scores) + 1}
          /\ SubSeq(reliability_scores', 1, Len(reliability_scores)) = reliability_scores]_vars

(* Two runs completed: each product has the row of the first run and,      *)
(* after it, the row of the second.                                        *)
C22_Witness ==
    /\ Len(reliability_scores) = 4
    /\ reliability_scores[1].product_id = reliability_scores[3].product_id
    /\ reliability_scores[1].run = 1
    /\ reliability_scores[3].run = 2
    /\ reliability_scores[1].score # reliability_scores[3].score

(* The issue rows of a product. *)
IssueRowsOf(product_id) == { r \in issues_table : r.product_id = product_id }
PositiveRowsOf(product_id) == { r \in positives_table : r.product_id = product_id }

(* C23: once a run has saved the issues of a product, the issues stored    *)
(* for the product are those of that run and no others: a row an earlier   *)
(* run stored and this run did not produce is gone.                        *)
C23_IssuesOverwritten ==
    \A p \in ProcIds :
        procs[p].pc = "save_positives" =>
            /\ \A r \in IssueRowsOf(ProductOf(p)) : r.run = procs[p].run
            /\ { r.title : r \in IssueRowsOf(ProductOf(p)) }
                   = { procs[p].all_issues[i].title : i \in 1..Len(procs[p].all_issues) }

LatestScoreOf(product_id) ==
    reliability_scores[CHOOSE i \in RowsOfProduct(product_id) :
                          \A j \in RowsOfProduct(product_id) : j <= i]

TitlesIn(sq) == { sq[i].title : i \in 1..Len(sq) }

(* The rows of a product all come from the run of its latest score, and    *)
(* they are the issues and positives that run gathered.                    *)
OneRunStored(product_id) ==
    LET latest == LatestScoreOf(product_id)
    IN  /\ \A r \in IssueRowsOf(product_id) \cup PositiveRowsOf(product_id) : r.run = latest.run
        /\ { r.title : r \in IssueRowsOf(product_id) } = TitlesIn(GatheredIssues(latest.feed))
        /\ { r.title : r \in PositiveRowsOf(product_id) } = TitlesIn(GatheredPositives(latest.feed))

(* C24: in every state of the store, whatever step a run has reached or    *)
(* was killed at, the latest score of a product and its stored issues and  *)
(* positives come from one run.                                            *)
C24_NoPartialStateVisible ==
    \A product_id \in ProductIds :
        RowsOfProduct(product_id) # {} => OneRunStored(product_id)

(* C27: when a product has no evidence at all, no issue, no positive, no   *)
(* recall and no repairability score, no numeric score and grade are       *)
(* computed for it and none is handed to persistence.                      *)
NoEvidenceIn(feed) ==
    /\ GatheredIssues(feed) = <<>>
    /\ GatheredPositives(feed) = <<>>
    /\ ~RecallCounted(GatheredRecallData(feed))
    /\ ~RepairCounted(GatheredRepairData(feed))

C27_NoScoreWithoutEvidence ==
    /\ \A p \in ProcIds :
           (procs[p].pc \in {"save_score", "save_issues", "save_positives"}
            /\ NoEvidenceIn(procs[p].feed)) => procs[p].score_data.outcome # "returned"
    /\ \A i \in 1..Len(reliability_scores) : ~NoEvidenceIn(reliability_scores[i].feed)

(* C30: save_issues stores one row per issue: after a list of issues with  *)
(* pairwise distinct titles is saved for a product, the table holds as     *)
(* many rows of that save as the list has issues.                          *)
C30_OneRowPerIssue ==
    \A p \in ProcIds :
        (procs[p].pc = "save_positives"
         /\ Cardinality(TitlesIn(procs[p].all_issues)) = Len(procs[p].all_issues)) =>
            Cardinality({ r \in IssueRowsOf(ProductOf(p)) : r.run = procs[p].run })
                = Len(procs[p].all_issues)

(* The same for the ids the hash happens to keep apart. *)
OneRowPerDistinctId ==
    \A p \in ProcIds :
        procs[p].pc = "save_positives" =>
            Cardinality({ r \in IssueRowsOf(ProductOf(p)) : r.run = procs[p].run })
                = Cardinality({ HashMod10000(procs[p].seed, t) : t \in TitlesIn(procs[p].all_issues) })

---------------------------------------------------------------------------
(* Claims on runs that overlap *)

Quiescent == \A p \in ProcIds : procs[p].pc = "done"

(* C25: two runs of one product that overlap do not mix: when all runs     *)
(* have ended, a product whose latest score comes from a run that gathered *)
(* issues has issue rows written by that run, and likewise positives, and  *)
(* is not left with the score of one run and the rows of the other.        *)
C25_ConcurrentRunsSerialized ==
    Quiescent =>
        \A product_id \in ProductIds :
            RowsOfProduct(product_id) # {} =>
                LET latest == LatestScoreOf(product_id)
                IN  /\ GatheredIssues(latest.feed) # <<>> =>
                           \E r \in IssueRowsOf(product_id) : r.run = latest.run
                    /\ GatheredPositives(latest.feed) # <<>> =>
                           \E r \in PositiveRowsOf(product_id) : r.run = latest.run

(* Every row stored for a product: its scores, its issues, the sources of  *)
(* its issues and its positives.                                           *)
StoredRowsOf(product_id) ==
    [ scores |-> { reliability_scores[i] : i \in RowsOfProduct(product_id) },
      issues |-> IssueRowsOf(product_id),
      sources |-> { s \in issue_sources :
                      \E r \in IssueRowsOf(product_id) : r.id = s.issue_id },
      positives |-> PositiveRowsOf(product_id) ]

SavePcs == {"save_score", "save_issues", "save_positives"}

(* C26: the rows of a product change only in a save step of a run that is  *)
(* at that product: a save for product P leaves every row of every other   *)
(* product Q as it was, however the runs interleave.                       *)
C26_ProductsIndependent ==
    [][\A product_id \in ProductIds :
          StoredRowsOf(product_id)' # StoredRowsOf(product_id) =>
              \E p \in ProcIds :
                  /\ procs[p].pc \in SavePcs
                  /\ ProductOf(p) = product_id
                  /\ procs'[p] # procs[p]]_vars

(* One run is saving the second product while the other saves the first,   *)
(* with rows of both products stored.                                      *)
C26_Witness ==
    /\ procs[1].pc \in SavePcs
    /\ procs[2].pc \in SavePcs
    /\ ProductOf(1) # ProductOf(2)
    /\ \A product_id \in ProductIds :
           /\ IssueRowsOf(product_id) # {}
           /\ StoredRowsOf(product_id).sources # {}
           /\ RowsOfProduct(product_id) # {}
    /\ procs[2].pc = "save_positives"

---------------------------------------------------------------------------
(* Claims on the listing *)

(* C29: the listing of a category names each product at most once, however *)
(* many score snapshots the product has.                                   *)
C29_ListedOnce ==
    \A i, j \in 1..Len(top_products.top_products) :
        i # j => top_products.top_products[i].id # top_products.top_products[j].id

====
